---- MODULE Spec2Model ----
(***************************************************************************)
(* Conway's Game of Life on a toroidal grid: the Universe of src/src/lib.rs *)
(* and the animation-frame driver run() that ticks and paints it.          *)
(*                                                                         *)
(* A Vec<Cell> is a sequence; Rust index i is TLA+ index i + 1 (At).       *)
(* tick() is unfolded into its steps (clone, one step per scanned row, the *)
(* final replacement) so that the buffer a reader could see during the     *)
(* scan is part of the state.                                              *)
(***************************************************************************)
EXTENDS Integers, Sequences, FiniteSets

VARIABLES
    pc,          \* position of the driver: "start", "idle", "scan", "replace", "draw", "panicked"
    width,       \* Universe.width
    height,      \* Universe.height
    cells,       \* Universe.cells
    next,        \* tick(): the local buffer `next`
    row,         \* tick(): outer loop variable
    live_nbors,  \* tick(): the values of the local `live_nbors` over the row scanned last
    painted,     \* draw_cells(): the cell states in the order their rectangles were filled
    pending,     \* number of animation-frame callbacks requested and not yet run
    frames,      \* number of animation-frame callbacks that have completed
    universes    \* number of Universe::new() calls so far

vars == <<pc, width, height, cells, next, row, live_nbors, painted, pending, frames, universes>>

----------------------------------------------------------------------------
(* Bounds of the model *)

\* callbacks the driver is followed for
MaxFrames == 2
\* largest width or height of a Universe drawn as an input of tick()
MaxDim == 4
\* largest number of cells of a Universe drawn as an input of tick()
MaxCells == 12
\* side of the square torus the 2x2 block is placed on
BlockGrid == 4

----------------------------------------------------------------------------
(* enum Cell *)

\* a discriminant other than 1 for the live state
Alive_as_two == 1 + 1

Dead == 0
Alive == 1
Cell == {Dead, Alive}

\* v[i] of a Vec
At(v, i) == v[i + 1]

\* the Universe the methods take as `self`
Universe(w, h, c) == [width |-> w, height |-> h, cells |-> c]
self == Universe(width, height, cells)

----------------------------------------------------------------------------
(* impl Universe *)

get_idx(u, r, c) == r * u.width + c

\* the row offsets copied for the columns
d_cols_from_height(u) == <<u.height - 1, 0, 1>>

\* the offset arrays [self.height - 1, 0, 1] and [self.width - 1, 0, 1]
d_rows(u) == <<u.height - 1, 0, 1>>
d_cols(u) == <<u.width - 1, 0, 1>>

\* the column offset added without wrapping
nbor_col_unwrapped(u, c, d_col) == d_col + c

nbor_row(u, r, d_row) == (d_row + r) % u.height
nbor_col(u, c, d_col) == (d_col + c) % u.width

\* the cell itself counted among its neighbours
nbor_term_with_self(u, r, c, d_row, d_col) ==
    At(u.cells, get_idx(u, (d_row + r) % u.height, (d_col + c) % u.width))

\* one iteration of the inner loop of live_neighbor_count: what it adds to count
nbor_term(u, r, c, d_row, d_col) ==
    IF d_row = 0 /\ d_col = 0
    THEN 0
    ELSE At(u.cells, get_idx(u, nbor_row(u, r, d_row), nbor_col(u, c, d_col)))

\* count never exceeds 8, so the u8 accumulator does not wrap
live_neighbor_count(u, r, c) ==
    LET dr == d_rows(u)
        dc == d_cols(u)
        over_cols(i) == nbor_term(u, r, c, dr[i], dc[1])
                      + nbor_term(u, r, c, dr[i], dc[2])
                      + nbor_term(u, r, c, dr[i], dc[3])
    IN  over_cols(1) + over_cols(2) + over_cols(3)

\* the flat indices one iteration of tick()'s inner loop uses on cells and next
tick_indices(u, r, c) ==
    {get_idx(u, r, c)} \cup
    {get_idx(u, nbor_row(u, r, d_rows(u)[i]), nbor_col(u, c, d_cols(u)[j])) :
        i \in 1..3, j \in 1..3}

\* a live cell with two neighbours dies
next_cell_needs_three(cell, n) ==
    IF cell = Alive /\ n < 3 THEN Dead
    ELSE IF cell = Alive /\ n = 3 THEN Alive
    ELSE IF cell = Alive /\ n > 3 THEN Dead
    ELSE IF cell = Dead /\ n = 3 THEN Alive
    ELSE cell

\* the match of tick(), arm by arm
next_cell(cell, n) ==
    IF cell = Alive /\ n < 2 THEN Dead
    ELSE IF cell = Alive /\ (n = 2 \/ n = 3) THEN Alive
    ELSE IF cell = Alive /\ n > 3 THEN Dead
    ELSE IF cell = Dead /\ n = 3 THEN Alive
    ELSE cell

\* the inner loop of tick() over row r: next[idx] = match (cell, live_nbors) for
\* idx = get_idx(r, c), c in 0..width; every other element of next is left as it
\* was.  The column that writes flat index i is i - get_idx(r, 0).
scan_row(u, nxt, r) ==
    [k \in 1..Len(nxt) |->
        LET c == (k - 1) - get_idx(u, r, 0)
        IN  IF c \in 0..(u.width - 1) /\ get_idx(u, r, c) = k - 1
            THEN next_cell(At(u.cells, get_idx(u, r, c)), live_neighbor_count(u, r, c))
            ELSE nxt[k]]

\* both conditions required instead of either
seed_cell_both(i) == IF i % 2 = 0 /\ i % 7 = 0 THEN Alive ELSE Dead

\* the range taken inclusive of width * height
seed_cells_inclusive(w, h) ==
    [k \in 1..(w * h + 1) |-> IF (k - 1) % 2 = 0 \/ (k - 1) % 7 = 0 THEN Alive ELSE Dead]

\* the seeding closure of Universe::new
seed_cell(i) == IF i % 2 = 0 \/ i % 7 = 0 THEN Alive ELSE Dead

\* (0..width * height).map(seed).collect()
seed_cells(w, h) == [k \in 1..(w * h) |-> seed_cell(k - 1)]

\* a Universe built with no columns
Universe_new_no_columns == [width |-> 0, height |-> 64, cells |-> <<>>]

Universe_new == Universe(128, 64, seed_cells(128, 64))

----------------------------------------------------------------------------
(* the driver: run() and the animation-frame callback *)

\* before run(): no Universe exists
Init ==
    /\ pc = "start"
    /\ width = 0 /\ height = 0 /\ cells = <<>>
    /\ next = <<>> /\ row = 0 /\ live_nbors = <<>>
    /\ painted = <<>> /\ pending = 0 /\ frames = 0 /\ universes = 0

\* run(): Universe::new(), then the first request_animation_frame
Run ==
    /\ pc = "start"
    /\ width' = Universe_new.width
    /\ height' = Universe_new.height
    /\ cells' = Universe_new.cells
    /\ universes' = universes + 1
    /\ pending' = pending + 1
    /\ pc' = "idle"
    /\ UNCHANGED <<next, row, live_nbors, painted, frames>>

\* the callback starts: universe.tick() clones cells and enters the loops
TickEnter ==
    /\ pc = "idle"
    /\ pending > 0
    /\ frames < MaxFrames
    /\ pending' = pending - 1
    /\ next' = cells
    /\ row' = 0
    /\ pc' = IF height > 0 /\ width > 0 THEN "scan" ELSE "replace"
    /\ UNCHANGED <<width, height, cells, live_nbors, painted, frames, universes>>

\* the row written into self.cells instead of next
TickRowInPlace ==
    /\ pc = "scan"
    /\ live_nbors' = [k \in 1..width |-> live_neighbor_count(self, row, k - 1)]
    /\ cells' = scan_row(self, cells, row)
    /\ IF row + 1 < height
       THEN row' = row + 1 /\ pc' = "scan"
       ELSE row' = row /\ pc' = "replace"
    /\ UNCHANGED <<width, height, next, painted, pending, frames, universes>>

\* one iteration of the outer loop of tick(): the inner loop over a whole row;
\* an index out of range panics
TickRow ==
    /\ pc = "scan"
    /\ IF \A c \in 0..(width - 1) : \A i \in tick_indices(self, row, c) : i < Len(cells)
       THEN /\ live_nbors' = [k \in 1..width |-> live_neighbor_count(self, row, k - 1)]
            /\ next' = scan_row(self, next, row)
            /\ IF row + 1 < height
               THEN row' = row + 1 /\ pc' = "scan"
               ELSE row' = row /\ pc' = "replace"
       ELSE /\ pc' = "panicked"
            /\ UNCHANGED <<next, row, live_nbors>>
    /\ UNCHANGED <<width, height, cells, painted, pending, frames, universes>>

\* self.cells = next
TickReplace ==
    /\ pc = "replace"
    /\ cells' = next
    /\ pc' = "draw"
    /\ UNCHANGED <<width, height, next, row, live_nbors, painted, pending, frames, universes>>

\* what draw_cells reads: cells[get_idx(row, col)] for row in 0..height, col in 0..width
draw_cells(u) ==
    [k \in 1..(u.width * u.height) |->
        At(u.cells, get_idx(u, (k - 1) \div u.width, (k - 1) % u.width))]

\* the callback paints and does not request the next frame
DrawWithoutRequest ==
    /\ pc = "draw"
    /\ painted' = draw_cells(self)
    /\ frames' = frames + 1
    /\ pc' = "idle"
    /\ UNCHANGED <<width, height, cells, next, row, live_nbors, pending, universes>>

\* the rest of the callback: draw_grid, draw_cells, request_animation_frame
Draw ==
    /\ pc = "draw"
    /\ painted' = draw_cells(self)
    /\ pending' = pending + 1
    /\ frames' = frames + 1
    /\ pc' = "idle"
    /\ UNCHANGED <<width, height, cells, next, row, live_nbors, universes>>

Next == Run \/ TickEnter \/ TickRow \/ TickReplace \/ Draw

Spec == Init /\ [][Next]_vars

----------------------------------------------------------------------------
(* Universes as inputs of tick() and live_neighbor_count() *)

\* the callback is about to run on a Universe of any small size and content
InitAny ==
    /\ pc = "idle"
    /\ width \in 1..MaxDim
    /\ height \in 1..MaxDim
    /\ width * height <= MaxCells
    /\ cells \in [1..(width * height) -> Cell]
    /\ next = <<>> /\ row = 0 /\ live_nbors = <<>>
    /\ painted = <<>> /\ pending = 1 /\ frames = 0 /\ universes = 1

NextTick == TickEnter \/ TickRow \/ TickReplace \/ Draw

SpecAny == InitAny /\ [][NextTick]_vars

\* a 2x2 block of Alive cells with its top-left corner at (r0, c0) of a torus of side g
block_cells(g, r0, c0) ==
    [k \in 1..(g * g) |->
        LET r == (k - 1) \div g
            c == (k - 1) % g
        IN  IF r \in {r0, (r0 + 1) % g} /\ c \in {c0, (c0 + 1) % g} THEN Alive ELSE Dead]

InitBlock ==
    /\ pc = "idle"
    /\ width = BlockGrid
    /\ height = BlockGrid
    /\ \E r0 \in 0..(BlockGrid - 1), c0 \in 0..(BlockGrid - 1) :
          cells = block_cells(BlockGrid, r0, c0)
    /\ next = <<>> /\ row = 0 /\ live_nbors = <<>>
    /\ painted = <<>> /\ pending = 1 /\ frames = 0 /\ universes = 1

SpecBlock == InitBlock /\ [][NextTick]_vars

----------------------------------------------------------------------------
(* Conway's rule and the Moore neighbourhood on a torus, as the specification states them *)

B3S23(cell, n) ==
    CASE cell = Alive /\ n < 2 -> Dead
      [] cell = Alive /\ n \in {2, 3} -> Alive
      [] cell = Alive /\ n > 3 -> Dead
      [] cell = Dead /\ n = 3 -> Alive
      [] cell = Dead /\ n # 3 -> Dead

\* the state of the cell at offset (dr, dc) from (r, c), wrapped on the torus
Moore(u, r, c, dr, dc) ==
    At(u.cells, ((r + dr) % u.height) * u.width + ((c + dc) % u.width))

\* the sum over {-1,0,1} x {-1,0,1} without (0,0)
MooreSum(u, r, c) ==
      Moore(u, r, c, -1, -1) + Moore(u, r, c, -1, 0) + Moore(u, r, c, -1, 1)
    + Moore(u, r, c, 0, -1)                          + Moore(u, r, c, 0, 1)
    + Moore(u, r, c, 1, -1)  + Moore(u, r, c, 1, 0)  + Moore(u, r, c, 1, 1)

\* a whole generation computed at once from the one before
LifeStep(u) ==
    Universe(u.width, u.height,
        [k \in 1..(u.width * u.height) |->
            B3S23(u.cells[k], MooreSum(u, (k - 1) \div u.width, (k - 1) % u.width))])

RECURSIVE LifeGen(_)
\* generation k of the constructed Universe
LifeGen(k) == IF k = 0 THEN Universe_new ELSE LifeStep(LifeGen(k - 1))

Rows == 0..(height - 1)
Cols == 0..(width - 1)

----------------------------------------------------------------------------
(* Claims *)

\* C1: the buffer tick() installs holds, for every cell (row, col), the B3/S23
\* rule applied to that cell's state and live-neighbour count in the generation
\* before the tick; nothing written for the new generation is read back.
TickAppliesRule ==
    [][pc = "replace" =>
          \A r \in Rows, c \in Cols :
              At(cells', get_idx(self, r, c)) =
                  B3S23(At(cells, get_idx(self, r, c)), live_neighbor_count(self, r, c))]_vars

\* a tick that has just installed a generation with births, deaths and survivals possible
TickAppliesRuleWitness ==
    /\ pc = "draw"
    /\ width = 3 /\ height = 4
    /\ cells # painted
    /\ \E i \in 1..Len(cells) : cells[i] = Alive /\ next[i] = Alive
    /\ \E i \in 1..Len(cells) : cells[i] = Dead

BufferSize == Len(cells) = width * height

\* two ticks have replaced the constructed buffer
BufferSizeWitness == universes = 1 /\ frames >= 2 /\ pc = "idle" /\ Len(cells) = 8192

\* C4: a 2x2 block on an otherwise dead torus of side BlockGrid never changes.
BlockIsStill == [][cells' = cells]_vars

\* the block straddles both seams of the torus and two ticks have run
BlockIsStillWitness ==
    /\ frames >= 2
    /\ cells = block_cells(BlockGrid, BlockGrid - 1, BlockGrid - 1)

\* C5: every value live_neighbor_count returns, in every generation reached from
\* construction, lies in 0..8.
CountInRange ==
    /\ \A k \in 1..Len(live_nbors) : live_nbors[k] \in 0..8
    /\ (pc = "idle" /\ universes = 1) =>
          \A r \in Rows, c \in Cols : live_neighbor_count(self, r, c) \in 0..8

\* a row of the generation after the seed has been counted, with low and high counts
CountInRangeWitness ==
    /\ frames >= 1 /\ pc = "scan" /\ row >= 1
    /\ \E k \in 1..Len(live_nbors) : live_nbors[k] = 0
    /\ \E k \in 1..Len(live_nbors) : live_nbors[k] >= 5

\* C6: every wrapped neighbour row is < height, every wrapped neighbour column
\* is < width, and every flat index used on the buffer is < width * height;
\* no access panics.
IndicesInBounds ==
    /\ pc # "panicked"
    /\ pc = "scan" =>
          \A c \in Cols : \A i \in tick_indices(self, row, c) : i \in 0..(Len(cells) - 1)
    /\ (pc = "idle" /\ universes = 1) =>
          \A r \in Rows, c \in Cols :
              /\ get_idx(self, r, c) \in 0..(width * height - 1)
              /\ \A i \in 1..3, j \in 1..3 :
                    /\ nbor_row(self, r, d_rows(self)[i]) \in 0..(height - 1)
                    /\ nbor_col(self, c, d_cols(self)[j]) \in 0..(width - 1)
                    /\ get_idx(self, nbor_row(self, r, d_rows(self)[i]),
                                     nbor_col(self, c, d_cols(self)[j]))
                          \in 0..(width * height - 1)

\* the scan is at the last row, whose last cell has neighbours across both seams
IndicesInBoundsWitness ==
    /\ pc = "scan" /\ row = height - 1 /\ frames >= 1
    /\ 0 \in tick_indices(self, row, width - 1)

\* C7: right after construction the Universe is 128 x 64 and cell i is Alive
\* exactly when i is even or a multiple of 7.
SeedRule ==
    (pc = "idle" /\ frames = 0) =>
        /\ width = 128 /\ height = 64
        /\ Len(cells) = 128 * 64
        /\ \A i \in 0..(128 * 64 - 1) : (At(cells, i) = Alive) <=> (i % 2 = 0 \/ i % 7 = 0)
        /\ At(cells, 0) = Alive /\ At(cells, 1) = Dead
        /\ At(cells, 7) = Alive /\ At(cells, 9) = Dead

\* the constructed Universe, before its first tick
SeedRuleWitness == pc = "idle" /\ frames = 0 /\ universes = 1 /\ At(cells, 21) = Alive

VisibleIsComplete ==
    [][/\ pc = "scan" => cells' = cells
       /\ (pc # "start" /\ cells' # cells) =>
             (pc = "replace" /\ pc' = "draw" /\ self' = LifeStep(self))
       /\ painted' # painted => (pc = "draw" /\ cells' = cells /\ painted' = cells)]_vars

\* mid-scan: the temporary already differs from the visible buffer
VisibleIsCompleteWitness ==
    /\ universes = 1 /\ pc = "scan" /\ row >= 1
    /\ next # cells
    /\ frames >= 1 /\ painted = cells

\* C10: one Universe is created; after k callbacks it is at generation k, the
\* k-th callback painted generation k, and the next callback is pending.
DriverSteps ==
    /\ universes = (IF pc = "start" THEN 0 ELSE 1)
    /\ pending = (IF pc = "idle" THEN 1 ELSE 0)
    /\ pc = "idle" =>
          /\ self = LifeGen(frames)
          /\ frames >= 1 => painted = cells

\* two callbacks have run and painted two different generations
DriverStepsWitness ==
    /\ pc = "idle" /\ frames = 2 /\ pending = 1
    /\ painted = LifeGen(2).cells /\ painted # LifeGen(1).cells

====
